---- MODULE Spec2Model ----
(***************************************************************************)
(* A model of the job lifecycle of Jolt's JobSystem (Jolt/Core/JobSystem.h):*)
(* the dependency counter, the execution state machine of Job::Execute,    *)
(* the barrier slot, the reference count behind JobHandle, and the         *)
(* scheduler and barrier the header only declares.  Every atomic operation *)
(* of the code (a compare_exchange, a fetch_add/fetch_sub, a load, an      *)
(* increment) is one step of one thread; the threads interleave freely.    *)
(*                                                                         *)
(* A uint32 value v is written as the integer congruent to v modulo 2^32   *)
(* in -2^31 .. 2^31-1 (its two's complement image), so that 0 - 1 is       *)
(* 0xffffffff = -1, 0xe0e0e0e0 is -522133280 and 0xd0d0d0d0 is -791621424. *)
(***************************************************************************)
EXTENDS Integers, Sequences, FiniteSets, TLC

\* ---------------------------------------------------------------- bounds
NumJobs == 2
NumThreads == 2
MaxDeps == 2
\* by how much the counts removed from a job may exceed the dependencies it
\* was given, where callers do not keep the contract
MaxUnderflow == 2

\* ------------------------------------------------------ program constants
cExecutingState == -522133280
cDoneState == -791621424
cBarrierDoneState == -1

Jobs == 1 .. NumJobs
Threads == 1 .. NumThreads
\* The one Barrier object of the model; its address is the non-zero value 1.
Barriers == {1}

VARIABLES
    \* the program's state
    numCreated,         \* jobs 1 .. numCreated have been created by CreateJob
    mNumDependencies,   \* Job::mNumDependencies, per job
    mReferenceCount,    \* Job::mReferenceCount, per job
    mBarrier,           \* Job::mBarrier, per job: 0, a barrier, cBarrierDoneState
    mJobFunction,       \* the payload: the job whose dependency it removes, or 0
    handle,             \* each thread's JobHandle: the job it refers to, or 0
    queue,              \* the scheduler's job queue
    numOutstanding,     \* the barrier's count of outstanding jobs
    waiter,             \* the thread inside WaitForJobs, or 0
    \* each thread's position
    pc,                 \* where the thread is in the call it is making
    tjob,               \* the job of that call
    tbarrier,           \* Execute's local variable barrier
    tqueue,             \* the thread holds the reference the queue took
    tresult,            \* what the thread's last Execute call returned; 0 while
                        \* a call is running or none was made (Execute never
                        \* returns 0)
    tbatch,             \* the thread's sRemoveDependencies call: the jobs of
                        \* the handle array, the count, the position of the
                        \* loop and the jobs collected for QueueJobs
    tadd,               \* the thread's Barrier::AddJobs call: the barrier, the
                        \* jobs of the handle array and the position of the
                        \* loop
    \* history variables, read only by the properties
    payloadRuns,        \* times the payload was invoked, per job
    payloadReturned,    \* the payload has returned, per job
    payloadRemoved,     \* the payload has made its RemoveDependency call, per job
    owed,               \* the initial count plus all added dependencies less
                        \* the sum of all removed counts, per job
    numQueued,          \* times the job was handed to QueueJob / QueueJobs
    numFreed,           \* times FreeJob was called for the job
    numNotified,        \* times OnJobFinished was called for the job
    numAttached,        \* times SetBarrier returned true for the job
    executeDone,        \* an Execute call on the job has returned cDoneState
    addedJobs,          \* the jobs for which an AddJob call has returned or
                        \* a turn of the loop of AddJobs has ended
    pendingZero,        \* the jobs whose counter a RemoveDependency brought to
                        \* zero and that are not yet queued, in that order
    lastAddJobs         \* the jobs of the array of the last Barrier::AddJobs
                        \* call that has returned

progVars == <<numCreated, mNumDependencies, mReferenceCount, mBarrier,
              mJobFunction, handle, queue, numOutstanding, waiter>>
threadVars == <<pc, tjob, tbarrier, tqueue, tresult, tbatch, tadd>>
histVars == <<payloadRuns, payloadReturned, payloadRemoved, owed, numQueued,
              numFreed, numNotified, numAttached, executeDone, addedJobs,
              pendingZero, lastAddJobs>>
vars == <<progVars, threadVars, histVars>>

\* ------------------------------------------------------------ Job, reads
CanBeExecuted(j) == mNumDependencies[j] = 0

IsDone(j) == mNumDependencies[j] = cDoneState

\* The counter holds a dependency count, not one of the two sentinels.
IsCount(j) == mNumDependencies[j] \notin {cExecutingState, cDoneState}

Created(j) == j <= numCreated

\* ------------------------------------------------- reference counting
\* Job::Job: the constructor starts the reference count at zero.
JobConstructor(rc, j) == [rc EXCEPT ![j] = 0]

AddRef(rc, j) == [rc EXCEPT ![j] = @ + 1]

\* A construction from a raw job that adds a reference of its own.
JobHandleFromRawAddRefs(rc, j) == AddRef(rc, j)

\* JobHandle(Job *inJob): the handle takes over the reference its creator
\* made and leaves the count as it is.
JobHandleFromRaw(rc, j) == rc

RECURSIVE Release(_, _), FreeJob(_, _)

\* A Release that reclaims the job although a reference is left.
ReleaseFreesEarly(st, j) ==
    LET st1 == [st EXCEPT !.rc[j] = @ - 1]
    IN  IF st1.rc[j] <= 1 THEN FreeJob(st1, j) ELSE st1

\* A Release that tests the count before the decrement:
\* if (mReferenceCount-- == 0).
ReleaseTestsOldCount(st, j) ==
    LET st1 == [st EXCEPT !.rc[j] = @ - 1]
    IN  IF st.rc[j] = 0 THEN FreeJob(st1, j) ELSE st1

\* Job::Release on the pair st = [rc, fr] of reference counts and FreeJob
\* counts: if (--mReferenceCount == 0) mJobSystem->FreeJob(this).
Release(st, j) ==
    LET st1 == [st EXCEPT !.rc[j] = @ - 1]
    IN  IF st1.rc[j] = 0 THEN FreeJob(st1, j) ELSE st1

\* FreeJob reclaims the job: its payload function is destroyed, and with it
\* the JobHandle the payload captured.
FreeJob(st, j) ==
    LET st1 == [st EXCEPT !.fr[j] = @ + 1]
    IN  IF mJobFunction[j] # 0 THEN Release(st1, mJobFunction[j]) ELSE st1

RefState == [rc |-> mReferenceCount, fr |-> numFreed]

\* ------------------------------------------------------------ the contract
\* Dependencies of j that a created job's payload is still going to remove.
Promised(j) ==
    Cardinality({p \in 1 .. numCreated :
                    mJobFunction[p] = j /\ ~payloadRemoved[p]})

\* The elements of a sequence.
Range(q) == {q[i] : i \in 1 .. Len(q)}

\* How often job j occurs in the sequence q.
Occurrences(q, j) == Cardinality({i \in 1 .. Len(q) : q[i] = j})

\* No sRemoveDependencies call is running.
NoBatch == [jobs |-> <<>>, count |-> 0, next |-> 1, ready |-> <<>>]

\* Dependencies of j that the sRemoveDependencies calls of threads 1 .. k have
\* yet to remove: the count of the call for each handle of its array that
\* refers to j and that its loop has not reached.
RECURSIVE Reserved(_, _)
Reserved(k, j) ==
    IF k = 0 THEN 0
    ELSE tbatch[k].count
            * Cardinality({i \in tbatch[k].next .. Len(tbatch[k].jobs) :
                              tbatch[k].jobs[i] = j})
         + Reserved(k - 1, j)

\* No Barrier::AddJobs call is running.
NoAdd == [barrier |-> 0, jobs |-> <<>>, next |-> 1]

\* The thread is inside a Barrier::AddJobs call.
InAddJobs(u) == pc[u] \in {"add_jobs", "add_jobs_count"}

\* Job j is an element, not yet dealt with, of the array of a running
\* Barrier::AddJobs call.
BeingAdded(j) ==
    \E u \in Threads :
        /\ InAddJobs(u)
        /\ \E i \in tadd[u].next .. Len(tadd[u].jobs) : tadd[u].jobs[i] = j

\* The thread's handle is an element of the array of a running
\* sRemoveDependencies or Barrier::AddJobs call: the caller passed the array
\* by pointer, so its handles are neither reassigned nor destroyed before the
\* call returns.
HandleLent(t) ==
    \E u \in Threads :
        \/ /\ pc[u] \in {"batch", "batch_queue"}
           /\ handle[t] \in Range(tbatch[u].jobs)
        \/ /\ InAddJobs(u)
           /\ handle[t] \in Range(tadd[u].jobs)

\* The thread is not inside a call and not inside WaitForJobs.
ThreadFree(t) == pc[t] = "idle" /\ waiter # t

\* The thread's handle is not being used by a call the thread is making.
HandleIdle(t) == pc[t] = "idle" \/ tqueue[t]

Init ==
    /\ numCreated = 0
    /\ mNumDependencies = [j \in Jobs |-> 0]
    /\ mReferenceCount = [j \in Jobs |-> 0]
    /\ mBarrier = [j \in Jobs |-> 0]
    /\ mJobFunction = [j \in Jobs |-> 0]
    /\ handle = [t \in Threads |-> 0]
    /\ queue = <<>>
    /\ numOutstanding = 0
    /\ waiter = 0
    /\ pc = [t \in Threads |-> "idle"]
    /\ tjob = [t \in Threads |-> 0]
    /\ tbarrier = [t \in Threads |-> 0]
    /\ tqueue = [t \in Threads |-> FALSE]
    /\ tresult = [t \in Threads |-> 0]
    /\ tbatch = [t \in Threads |-> NoBatch]
    /\ tadd = [t \in Threads |-> NoAdd]
    /\ payloadRuns = [j \in Jobs |-> 0]
    /\ payloadReturned = [j \in Jobs |-> FALSE]
    /\ payloadRemoved = [j \in Jobs |-> FALSE]
    /\ owed = [j \in Jobs |-> 0]
    /\ numQueued = [j \in Jobs |-> 0]
    /\ numFreed = [j \in Jobs |-> 0]
    /\ numNotified = [j \in Jobs |-> 0]
    /\ numAttached = [j \in Jobs |-> 0]
    /\ executeDone = [j \in Jobs |-> FALSE]
    /\ addedJobs = {}
    /\ pendingZero = <<>>
    /\ lastAddJobs = <<>>

\* ------------------------------------------------------------ scheduler
\* QueueJob on the reference counts rc: the queue takes a reference of its
\* own and the job is appended to the queue.
QueueJob(rc, j) ==
    /\ queue' = Append(queue, j)
    /\ mReferenceCount' = AddRef(rc, j)
    /\ numQueued' = [numQueued EXCEPT ![j] = @ + 1]

\* The sequence q without its first occurrence of j.
RECURSIVE Without(_, _)
Without(q, j) ==
    IF q = <<>> THEN <<>>
    ELSE IF Head(q) = j THEN Tail(q)
    ELSE <<Head(q)>> \o Without(Tail(q), j)

\* CreateJob(name, color, function, n), its handle assigned to the thread's
\* handle: the job is constructed, CreateJob makes the first reference to it
\* and constructs the handle it returns from the raw job.  The function is either self-contained (s = 0) or the documented
\* pattern [s]() { ...; s.RemoveDependency(); } that captures a copy of a
\* handle to the job s; a job created with no dependencies is queued at once.
CreateJob(t, n, s) ==
    LET j == numCreated + 1
        rc0 == AddRef(JobConstructor(mReferenceCount, j), j)
        rc1 == JobHandleFromRaw(rc0, j)
        rc2 == IF s = 0 THEN rc1 ELSE AddRef(rc1, s)
        st == IF handle[t] = 0 THEN [rc |-> rc2, fr |-> numFreed]
              ELSE Release([rc |-> rc2, fr |-> numFreed], handle[t])
    IN  /\ ThreadFree(t)
        /\ ~HandleLent(t)
        /\ numCreated < NumJobs
        /\ s # 0 =>
            /\ \E u \in Threads : handle[u] = s
            /\ IsCount(s)
            /\ Promised(s) < mNumDependencies[s]
        /\ numCreated' = j
        /\ mNumDependencies' = [mNumDependencies EXCEPT ![j] = n]
        /\ mJobFunction' = [mJobFunction EXCEPT ![j] = s]
        /\ handle' = [handle EXCEPT ![t] = j]
        /\ owed' = [owed EXCEPT ![j] = n]
        /\ numFreed' = st.fr
        /\ IF n = 0
             THEN QueueJob(st.rc, j)
             ELSE /\ mReferenceCount' = st.rc
                  /\ UNCHANGED <<queue, numQueued>>
        /\ UNCHANGED <<mBarrier, numOutstanding, waiter, threadVars,
                       payloadRuns, payloadReturned, payloadRemoved,
                       numNotified, numAttached, executeDone, addedJobs,
                       pendingZero, lastAddJobs>>

\* ------------------------------------------------------------ JobHandle
\* Copy construction (the thread's handle is empty) and copy assignment from
\* the handle of thread src.
HandleCopy(t, src) ==
    LET st1 == [RefState EXCEPT !.rc = AddRef(@, handle[src])]
        st2 == IF handle[t] = 0 THEN st1 ELSE Release(st1, handle[t])
    IN  /\ ThreadFree(t)
        /\ ~HandleLent(t)
        /\ src # t
        /\ handle[src] # 0
        /\ handle' = [handle EXCEPT ![t] = handle[src]]
        /\ mReferenceCount' = st2.rc
        /\ numFreed' = st2.fr
        /\ UNCHANGED <<numCreated, mNumDependencies, mBarrier, mJobFunction,
                       queue, numOutstanding, waiter, threadVars,
                       payloadRuns, payloadReturned, payloadRemoved, owed,
                       numQueued, numNotified, numAttached, executeDone,
                       addedJobs, pendingZero, lastAddJobs>>

\* Move construction (the thread's handle is empty) and move assignment from
\* the handle of thread src, which is left empty.
HandleMove(t, src) ==
    LET st == IF handle[t] = 0 THEN RefState
              ELSE Release(RefState, handle[t])
    IN  /\ ThreadFree(t)
        /\ ~HandleLent(t)
        /\ src # t
        /\ handle[src] # 0
        /\ HandleIdle(src)
        /\ ~HandleLent(src)
        /\ handle' = [handle EXCEPT ![t] = handle[src], ![src] = 0]
        /\ mReferenceCount' = st.rc
        /\ numFreed' = st.fr
        /\ UNCHANGED <<numCreated, mNumDependencies, mBarrier, mJobFunction,
                       queue, numOutstanding, waiter, threadVars,
                       payloadRuns, payloadReturned, payloadRemoved, owed,
                       numQueued, numNotified, numAttached, executeDone,
                       addedJobs, pendingZero, lastAddJobs>>

\* Destruction of the thread's handle, which refers to a job.
HandleDestroy(t) ==
    LET st == Release(RefState, handle[t])
    IN  /\ ThreadFree(t)
        /\ ~HandleLent(t)
        /\ handle[t] # 0
        /\ handle' = [handle EXCEPT ![t] = 0]
        /\ mReferenceCount' = st.rc
        /\ numFreed' = st.fr
        /\ UNCHANGED <<numCreated, mNumDependencies, mBarrier, mJobFunction,
                       queue, numOutstanding, waiter, threadVars,
                       payloadRuns, payloadReturned, payloadRemoved, owed,
                       numQueued, numNotified, numAttached, executeDone,
                       addedJobs, pendingZero, lastAddJobs>>

\* ------------------------------------------------- dependency counter
\* Job::AddDependency: fetch_add on the counter.
AddDependency(j, n) == [mNumDependencies EXCEPT ![j] = @ + n]

\* a - n on uint32, for 0 < n < 2^31: the subtraction wraps modulo 2^32,
\* which in the two's complement image happens below MinInt32.
MinInt32 == -2147483647 - 1
MaxInt32 == 2147483647
Sub32(a, n) ==
    IF a >= MinInt32 + n THEN a - n
    ELSE ((a + MaxInt32) - n + 1) + MaxInt32 + 1

\* Job::RemoveDependency: fetch_sub on the counter ...
RemoveDependency(j, n) == [mNumDependencies EXCEPT ![j] = Sub32(@, n)]

\* ... and its result: whether the new value is zero.
RemoveDependencyResult(j, n) == Sub32(mNumDependencies[j], n) = 0

\* The caller's side of the contract: the job has not reached zero, and the
\* caller removes only dependencies that no payload and no running
\* sRemoveDependencies call is going to remove.
MayRemove(j, n) ==
    /\ IsCount(j)
    /\ n <= mNumDependencies[j] - Promised(j) - Reserved(NumThreads, j)

\* The caller knows that the job has not reached zero.
MayAdd(j, n) ==
    /\ IsCount(j)
    /\ mNumDependencies[j] # 0
    /\ mNumDependencies[j] + n <= MaxDeps

\* JobHandle::AddDependency(n) on the thread's handle.
HandleAddDependency(t, n) ==
    LET j == handle[t]
    IN  /\ ThreadFree(t)
        /\ j # 0
        /\ MayAdd(j, n)
        /\ mNumDependencies' = AddDependency(j, n)
        /\ owed' = [owed EXCEPT ![j] = @ + n]
        /\ UNCHANGED <<numCreated, mReferenceCount, mBarrier, mJobFunction,
                       handle, queue, numOutstanding, waiter, threadVars,
                       payloadRuns, payloadReturned, payloadRemoved,
                       numQueued, numFreed, numNotified, numAttached,
                       executeDone, addedJobs, pendingZero, lastAddJobs>>

\* A JobHandle::RemoveDependency that calls Job::RemoveDependency, which only
\* reports whether the counter reached zero, and drops the result.
HandleRemoveDependencyNoQueue(t, n) ==
    LET j == handle[t]
    IN  /\ ThreadFree(t)
        /\ j # 0
        /\ MayRemove(j, n)
        /\ mNumDependencies' = RemoveDependency(j, n)
        /\ owed' = [owed EXCEPT ![j] = @ - n]
        /\ UNCHANGED <<numCreated, mReferenceCount, mBarrier, mJobFunction,
                       handle, queue, numOutstanding, waiter, threadVars,
                       payloadRuns, payloadReturned, payloadRemoved,
                       numQueued, numFreed, numNotified, numAttached,
                       executeDone, addedJobs, pendingZero, lastAddJobs>>

\* JobHandle::RemoveDependency(n) on the thread's handle, which is
\* Job::RemoveDependencyAndQueue; first step: the fetch_sub of
\* Job::RemoveDependency.
HandleRemoveDependency(t, n) ==
    LET j == handle[t]
    IN  /\ ThreadFree(t)
        /\ j # 0
        /\ MayRemove(j, n)
        /\ mNumDependencies' = RemoveDependency(j, n)
        /\ owed' = [owed EXCEPT ![j] = @ - n]
        /\ IF RemoveDependencyResult(j, n)
             THEN /\ pc' = [pc EXCEPT ![t] = "rd_queue"]
                  /\ tjob' = [tjob EXCEPT ![t] = j]
                  /\ pendingZero' = Append(pendingZero, j)
             ELSE UNCHANGED <<pc, tjob, pendingZero>>
        /\ UNCHANGED <<numCreated, mReferenceCount, mBarrier, mJobFunction,
                       handle, queue, numOutstanding, waiter, tbarrier, tresult, tbatch, tadd, tqueue,
                       payloadRuns, payloadReturned, payloadRemoved,
                       numQueued, numFreed, numNotified, numAttached,
                       executeDone, addedJobs,
                       lastAddJobs>>

\* JobHandle::RemoveDependency(n) on the thread's handle by a caller that does
\* not keep the contract: whatever the counter holds, a count or a sentinel,
\* and whatever is left to remove.  The fetch_sub is made all the same, and
\* the job is queued if the new value is zero.
HandleRemoveDependencyUnchecked(t, n) ==
    LET j == handle[t]
    IN  /\ ThreadFree(t)
        /\ j # 0
        /\ owed[j] - n >= 0 - MaxUnderflow
        /\ mNumDependencies' = RemoveDependency(j, n)
        /\ owed' = [owed EXCEPT ![j] = @ - n]
        /\ IF RemoveDependencyResult(j, n)
             THEN /\ pc' = [pc EXCEPT ![t] = "rd_queue"]
                  /\ tjob' = [tjob EXCEPT ![t] = j]
                  /\ pendingZero' = Append(pendingZero, j)
             ELSE UNCHANGED <<pc, tjob, pendingZero>>
        /\ UNCHANGED <<numCreated, mReferenceCount, mBarrier, mJobFunction,
                       handle, queue, numOutstanding, waiter, tbarrier, tresult, tbatch, tadd,
                       tqueue, payloadRuns, payloadReturned, payloadRemoved,
                       numQueued, numFreed, numNotified, numAttached,
                       executeDone, addedJobs,
                       lastAddJobs>>

\* Job::RemoveDependencyAndQueue, second step: RemoveDependency returned
\* true, QueueJob is called.
RemoveDependencyAndQueue(t) ==
    /\ pc[t] = "rd_queue"
    /\ QueueJob(mReferenceCount, tjob[t])
    /\ pendingZero' = Without(pendingZero, tjob[t])
    /\ pc' = [pc EXCEPT ![t] = "idle"]
    /\ tjob' = [tjob EXCEPT ![t] = 0]
    /\ UNCHANGED <<numCreated, mNumDependencies, mBarrier, mJobFunction,
                   handle, numOutstanding, waiter, tbarrier, tresult, tbatch, tadd, tqueue,
                   payloadRuns, payloadReturned, payloadRemoved, owed,
                   numFreed, numNotified, numAttached, executeDone, addedJobs,
                       lastAddJobs>>

\* ------------------------------------------------- sRemoveDependencies
\* The handle arrays: the handles of distinct threads, in any order.
HandleArrays ==
    UNION {{hs \in [1 .. k -> Threads] :
               \A a \in 1 .. k, b \in 1 .. k : a # b => hs[a] # hs[b]} :
           k \in 1 .. NumThreads}

\* QueueJobs with the jobs in the reverse order.
QueueJobsReversed(rc, js) ==
    /\ queue' = queue \o [i \in 1 .. Len(js) |-> js[Len(js) + 1 - i]]
    /\ mReferenceCount' = [j \in Jobs |-> rc[j] + Occurrences(js, j)]
    /\ numQueued' = [j \in Jobs |-> numQueued[j] + Occurrences(js, j)]

\* QueueJobs on the reference counts rc: the jobs are appended to the queue
\* in the order given, and the queue takes a reference to each.
QueueJobs(rc, js) ==
    /\ queue' = queue \o js
    /\ mReferenceCount' = [j \in Jobs |-> rc[j] + Occurrences(js, j)]
    /\ numQueued' = [j \in Jobs |-> numQueued[j] + Occurrences(js, j)]

\* The sequence q without the first occurrence of each job of js.
RECURSIVE WithoutAll(_, _)
WithoutAll(q, js) ==
    IF js = <<>> THEN q ELSE WithoutAll(Without(q, Head(js)), Tail(js))

\* JobHandle::sRemoveDependencies(inHandles, inNumHandles, n) is called with
\* the array made of the handles of the threads hs, none of them empty; the
\* caller keeps the contract of RemoveDependency for every handle.
sRemoveDependencies(t, hs, n) ==
    LET js == [i \in 1 .. Len(hs) |-> handle[hs[i]]]
    IN  /\ ThreadFree(t)
        /\ \A i \in 1 .. Len(hs) : handle[hs[i]] # 0
        /\ \A j \in Range(js) :
              /\ IsCount(j)
              /\ n * Occurrences(js, j) <=
                    mNumDependencies[j] - Promised(j)
                        - Reserved(NumThreads, j)
        /\ tbatch' = [tbatch EXCEPT
                         ![t] = [jobs |-> js, count |-> n, next |-> 1,
                                 ready |-> <<>>]]
        /\ pc' = [pc EXCEPT ![t] = "batch"]
        /\ UNCHANGED <<progVars, tjob, tbarrier, tqueue, tresult, tadd,
                       histVars>>

\* sRemoveDependencies, one turn of its loop: Job::RemoveDependency on the
\* job of the next handle, which is collected if its counter reached zero.
sRemoveDependenciesLoop(t) ==
    LET b == tbatch[t]
        j == b.jobs[b.next]
        zero == RemoveDependencyResult(j, b.count)
    IN  /\ pc[t] = "batch"
        /\ mNumDependencies' = RemoveDependency(j, b.count)
        /\ owed' = [owed EXCEPT ![j] = @ - b.count]
        /\ tbatch' = [tbatch EXCEPT
                         ![t].next = @ + 1,
                         ![t].ready = IF zero THEN Append(@, j) ELSE @]
        /\ pendingZero' = IF zero THEN Append(pendingZero, j) ELSE pendingZero
        /\ pc' = [pc EXCEPT
                     ![t] = IF b.next = Len(b.jobs) THEN "batch_queue"
                            ELSE "batch"]
        /\ UNCHANGED <<numCreated, mReferenceCount, mBarrier, mJobFunction,
                       handle, queue, numOutstanding, waiter, tjob, tbarrier,
                       tqueue, tresult, tadd, payloadRuns, payloadReturned,
                       payloadRemoved, numQueued, numFreed, numNotified,
                       numAttached, executeDone, addedJobs,
                       lastAddJobs>>

\* sRemoveDependencies, after the loop: the collected jobs, if any, are
\* handed to the scheduler in one QueueJobs call.
sRemoveDependenciesQueue(t) ==
    LET js == tbatch[t].ready
    IN  /\ pc[t] = "batch_queue"
        /\ IF js # <<>>
             THEN /\ QueueJobs(mReferenceCount, js)
                  /\ pendingZero' = WithoutAll(pendingZero, js)
             ELSE UNCHANGED <<queue, mReferenceCount, numQueued, pendingZero>>
        /\ pc' = [pc EXCEPT ![t] = "idle"]
        /\ UNCHANGED <<numCreated, mNumDependencies, mBarrier, mJobFunction,
                       handle, numOutstanding, waiter, tjob, tbarrier, tqueue,
                       tresult, tbatch, tadd, payloadRuns, payloadReturned,
                       payloadRemoved, owed, numFreed, numNotified,
                       numAttached, executeDone, addedJobs,
                       lastAddJobs>>

\* ------------------------------------------------------------ Execute
\* A worker takes the job at the head of the queue, to call its Execute and
\* then release the queue's reference.  The thread inside WaitForJobs does
\* the same while it waits.
Dequeue(t) ==
    /\ pc[t] = "idle"
    /\ queue # <<>>
    /\ queue' = Tail(queue)
    /\ pc' = [pc EXCEPT ![t] = "exec"]
    /\ tjob' = [tjob EXCEPT ![t] = Head(queue)]
    /\ tqueue' = [tqueue EXCEPT ![t] = TRUE]
    /\ tresult' = [tresult EXCEPT ![t] = 0]
    /\ UNCHANGED <<numCreated, mNumDependencies, mReferenceCount, mBarrier,
                   mJobFunction, handle, numOutstanding, waiter, tbarrier,
                   tbatch, tadd, histVars>>

\* The job system calls Execute on the job of the thread's handle
\* (JobHandle::GetPtr), whatever the job's state: the call that may race with
\* a worker's.
ExecuteViaHandle(t) ==
    /\ ThreadFree(t)
    /\ handle[t] # 0
    /\ pc' = [pc EXCEPT ![t] = "exec"]
    /\ tjob' = [tjob EXCEPT ![t] = handle[t]]
    /\ tresult' = [tresult EXCEPT ![t] = 0]
    /\ UNCHANGED <<progVars, tbarrier, tqueue, tbatch, tadd, histVars>>

\* Where a thread goes when its Execute call returns: a worker releases the
\* queue's reference, a caller with a handle is done.
AfterExecute(t) ==
    IF tqueue[t]
      THEN /\ pc' = [pc EXCEPT ![t] = "release"]
           /\ UNCHANGED tjob
      ELSE /\ pc' = [pc EXCEPT ![t] = "idle"]
           /\ tjob' = [tjob EXCEPT ![t] = 0]

\* An Execute that starts the job whatever its counter holds.
ExecuteClaimsAlways(j) == TRUE

\* An Execute that starts a job that still has dependencies.
ExecuteClaimsPending(j) == IsCount(j)

\* Execute, whether the compare_exchange_strong of the counter from 0 to
\* cExecutingState succeeds.
ExecuteClaims(j) == mNumDependencies[j] = 0

\* Execute, first step: the compare-and-swap; on success the payload starts,
\* otherwise the call returns the value it found.
ExecuteClaim(t) ==
    LET j == tjob[t]
    IN  /\ pc[t] = "exec"
        /\ IF ExecuteClaims(j)
             THEN /\ mNumDependencies' =
                        [mNumDependencies EXCEPT ![j] = cExecutingState]
                  /\ payloadRuns' = [payloadRuns EXCEPT ![j] = @ + 1]
                  /\ pc' = [pc EXCEPT ![t] = "payload"]
                  /\ UNCHANGED tresult
                  /\ UNCHANGED tjob
             ELSE /\ tresult' = [tresult EXCEPT ![t] = mNumDependencies[j]]
                  /\ AfterExecute(t)
                  /\ UNCHANGED <<mNumDependencies, payloadRuns>>
        /\ UNCHANGED <<numCreated, mReferenceCount, mBarrier, mJobFunction,
                       handle, queue, numOutstanding, waiter, tbarrier, tqueue,
                       tbatch, tadd, payloadReturned, payloadRemoved, owed, numQueued,
                       numFreed, numNotified, numAttached, executeDone,
                       addedJobs, pendingZero, lastAddJobs>>

\* mJobFunction(): a self-contained payload runs and returns; a payload of
\* the documented pattern does its work and calls RemoveDependency on the
\* handle it captured (the fetch_sub).
Payload(t) ==
    LET j == tjob[t]
        s == mJobFunction[j]
    IN  /\ pc[t] = "payload"
        /\ IF s = 0
             THEN /\ payloadReturned' = [payloadReturned EXCEPT ![j] = TRUE]
                  /\ pc' = [pc EXCEPT ![t] = "fetch"]
                  /\ UNCHANGED <<mNumDependencies, payloadRemoved, owed,
                                 pendingZero>>
             ELSE /\ mNumDependencies' = RemoveDependency(s, 1)
                  /\ payloadRemoved' = [payloadRemoved EXCEPT ![j] = TRUE]
                  /\ owed' = [owed EXCEPT ![s] = @ - 1]
                  /\ IF RemoveDependencyResult(s, 1)
                       THEN /\ pc' = [pc EXCEPT ![t] = "p_queue"]
                            /\ pendingZero' = Append(pendingZero, s)
                       ELSE /\ pc' = [pc EXCEPT ![t] = "p_return"]
                            /\ UNCHANGED pendingZero
                  /\ UNCHANGED payloadReturned
        /\ UNCHANGED <<numCreated, mReferenceCount, mBarrier, mJobFunction,
                       handle, queue, numOutstanding, waiter, tjob, tbarrier, tresult, tbatch, tadd,
                       tqueue, payloadRuns, numQueued, numFreed, numNotified,
                       numAttached, executeDone, addedJobs,
                       lastAddJobs>>

\* The payload's RemoveDependency reached zero: its call of QueueJob.
PayloadQueue(t) ==
    LET s == mJobFunction[tjob[t]]
    IN  /\ pc[t] = "p_queue"
        /\ QueueJob(mReferenceCount, s)
        /\ pendingZero' = Without(pendingZero, s)
        /\ pc' = [pc EXCEPT ![t] = "p_return"]
        /\ UNCHANGED <<numCreated, mNumDependencies, mBarrier, mJobFunction,
                       handle, numOutstanding, waiter, tjob, tbarrier, tresult, tbatch, tadd, tqueue,
                       payloadRuns, payloadReturned, payloadRemoved, owed,
                       numFreed, numNotified, numAttached, executeDone,
                       addedJobs,
                       lastAddJobs>>

\* The payload returns to Execute.
PayloadReturn(t) ==
    /\ pc[t] = "p_return"
    /\ payloadReturned' = [payloadReturned EXCEPT ![tjob[t]] = TRUE]
    /\ pc' = [pc EXCEPT ![t] = "fetch"]
    /\ UNCHANGED <<progVars, tjob, tbarrier, tresult, tbatch, tadd, tqueue, payloadRuns,
                   payloadRemoved, owed, numQueued, numFreed, numNotified,
                   numAttached, executeDone, addedJobs, pendingZero, lastAddJobs>>

\* Execute, the loop's load: barrier = mBarrier.
ExecuteFetchBarrier(t) ==
    /\ pc[t] = "fetch"
    /\ tbarrier' = [tbarrier EXCEPT ![t] = mBarrier[tjob[t]]]
    /\ pc' = [pc EXCEPT ![t] = "freeze"]
    /\ UNCHANGED <<progVars, tjob, tqueue, tresult, tbatch, tadd, histVars>>

\* An Execute that stores cBarrierDoneState without comparing the slot with
\* the value it loaded.
FreezeBarrierStores(j, b) == TRUE

\* Execute, whether the loop's compare_exchange_strong(barrier,
\* cBarrierDoneState) succeeds: the slot still holds the value loaded.
FreezeBarrier(j, b) == mBarrier[j] = b

\* An Execute that goes on to mark the job done without having stored
\* cBarrierDoneState in the slot.
ExecuteFreezeBarrierNoStore(t) ==
    /\ pc[t] = "freeze"
    /\ pc' = [pc EXCEPT ![t] = "markdone"]
    /\ UNCHANGED <<progVars, tjob, tbarrier, tqueue, tresult, tbatch, tadd, histVars>>

\* Execute, the loop's compare-and-swap: on failure the loop loads again.
ExecuteFreezeBarrier(t) ==
    LET j == tjob[t]
    IN  /\ pc[t] = "freeze"
        /\ IF FreezeBarrier(j, tbarrier[t])
             THEN /\ mBarrier' = [mBarrier EXCEPT ![j] = cBarrierDoneState]
                  /\ pc' = [pc EXCEPT ![t] = "markdone"]
             ELSE /\ pc' = [pc EXCEPT ![t] = "fetch"]
                  /\ UNCHANGED mBarrier
        /\ UNCHANGED <<numCreated, mNumDependencies, mReferenceCount,
                       mJobFunction, handle, queue, numOutstanding, waiter,
                       tjob, tbarrier, tresult, tbatch, tadd, tqueue, histVars>>

\* An Execute that leaves the counter at cExecutingState.
MarkDoneSkipped(j) == mNumDependencies

\* An Execute that puts the counter back to 0 when the payload has returned.
MarkDoneResets(j) == [mNumDependencies EXCEPT ![j] = 0]

\* Execute, the compare_exchange_strong of the counter from cExecutingState
\* to cDoneState.
MarkDone(j) ==
    IF mNumDependencies[j] = cExecutingState
      THEN [mNumDependencies EXCEPT ![j] = cDoneState]
      ELSE mNumDependencies

\* Execute, marking the job done; with no barrier captured it returns
\* cDoneState.
ExecuteMarkDone(t) ==
    LET j == tjob[t]
    IN  /\ pc[t] = "markdone"
        /\ mNumDependencies' = MarkDone(j)
        /\ IF tbarrier[t] # 0
             THEN /\ pc' = [pc EXCEPT ![t] = "notify"]
                  /\ UNCHANGED <<tjob, tresult, executeDone>>
             ELSE /\ executeDone' = [executeDone EXCEPT ![j] = TRUE]
                  /\ tresult' = [tresult EXCEPT ![t] = cDoneState]
                  /\ AfterExecute(t)
        /\ UNCHANGED <<numCreated, mReferenceCount, mBarrier, mJobFunction,
                       handle, queue, numOutstanding, waiter, tbarrier, tqueue,
                       tbatch, tadd, payloadRuns, payloadReturned, payloadRemoved,
                       owed, numQueued, numFreed, numNotified, numAttached,
                       addedJobs, pendingZero, lastAddJobs>>

\* Barrier::OnJobFinished: the outstanding count goes down by one.
OnJobFinished(j) ==
    /\ numOutstanding' = numOutstanding - 1
    /\ numNotified' = [numNotified EXCEPT ![j] = @ + 1]

\* Execute, the call of the captured barrier's OnJobFinished, and the return
\* of cDoneState.
ExecuteNotify(t) ==
    LET j == tjob[t]
    IN  /\ pc[t] = "notify"
        /\ OnJobFinished(j)
        /\ executeDone' = [executeDone EXCEPT ![j] = TRUE]
        /\ tbarrier' = [tbarrier EXCEPT ![t] = 0]
        /\ tresult' = [tresult EXCEPT ![t] = cDoneState]
        /\ AfterExecute(t)
        /\ UNCHANGED <<numCreated, mNumDependencies, mReferenceCount, mBarrier,
                       mJobFunction, handle, queue, waiter, tqueue, tbatch, tadd,
                       payloadRuns, payloadReturned, payloadRemoved, owed,
                       numQueued, numFreed, numAttached, addedJobs,
                       pendingZero, lastAddJobs>>

\* The worker releases the reference the queue held.
WorkerRelease(t) ==
    LET st == Release(RefState, tjob[t])
    IN  /\ pc[t] = "release"
        /\ mReferenceCount' = st.rc
        /\ numFreed' = st.fr
        /\ pc' = [pc EXCEPT ![t] = "idle"]
        /\ tjob' = [tjob EXCEPT ![t] = 0]
        /\ tqueue' = [tqueue EXCEPT ![t] = FALSE]
        /\ UNCHANGED <<numCreated, mNumDependencies, mBarrier, mJobFunction,
                       handle, queue, numOutstanding, waiter, tbarrier, tresult, tbatch, tadd,
                       payloadRuns, payloadReturned, payloadRemoved, owed,
                       numQueued, numNotified, numAttached, executeDone,
                       addedJobs, pendingZero, lastAddJobs>>

\* ------------------------------------------------------------ Barrier
\* A SetBarrier that stores the barrier whatever the slot holds.
SetBarrierOverwrites(j) == TRUE

\* A SetBarrier that also attaches the barrier to a slot that is frozen.
SetBarrierAfterDone(j) == mBarrier[j] \in {0, cBarrierDoneState}

\* Job::SetBarrier, whether the compare_exchange_strong of the slot from 0
\* to the barrier succeeds, which is its result.
SetBarrier(j) == mBarrier[j] = 0

\* Barrier::AddJob on the thread's handle, first step: SetBarrier(this).  A
\* job is handed to AddJob at most once (it can only belong to one barrier).
AddJob(t, b) ==
    LET j == handle[t]
    IN  /\ ThreadFree(t)
        /\ j # 0
        /\ numAttached[j] = 0
        /\ j \notin addedJobs
        /\ ~BeingAdded(j)
        /\ IF SetBarrier(j)
             THEN /\ mBarrier' = [mBarrier EXCEPT ![j] = b]
                  /\ numAttached' = [numAttached EXCEPT ![j] = @ + 1]
                  /\ pc' = [pc EXCEPT ![t] = "add_count"]
                  /\ tjob' = [tjob EXCEPT ![t] = j]
                  /\ UNCHANGED addedJobs
             ELSE /\ addedJobs' = addedJobs \cup {j}
                  /\ UNCHANGED <<mBarrier, numAttached, pc, tjob>>
        /\ UNCHANGED <<numCreated, mNumDependencies, mReferenceCount,
                       mJobFunction, handle, queue, numOutstanding, waiter,
                       tbarrier, tresult, tbatch, tadd, tqueue, payloadRuns, payloadReturned,
                       payloadRemoved, owed, numQueued, numFreed, numNotified,
                       executeDone, pendingZero, lastAddJobs>>

\* Barrier::AddJob, second step: SetBarrier succeeded, the outstanding count
\* goes up by one.
AddJobCount(t) ==
    /\ pc[t] = "add_count"
    /\ numOutstanding' = numOutstanding + 1
    /\ addedJobs' = addedJobs \cup {tjob[t]}
    /\ pc' = [pc EXCEPT ![t] = "idle"]
    /\ tjob' = [tjob EXCEPT ![t] = 0]
    /\ UNCHANGED <<numCreated, mNumDependencies, mReferenceCount, mBarrier,
                   mJobFunction, handle, queue, waiter, tbarrier, tresult, tbatch, tadd, tqueue,
                   payloadRuns, payloadReturned, payloadRemoved, owed,
                   numQueued, numFreed, numNotified, numAttached, executeDone,
                   pendingZero, lastAddJobs>>

\* Barrier::AddJobs(inHandles, inNumHandles) is called with the array made
\* of the handles of the threads hs, none of them empty and no two of them
\* referring to the same job; each job is handed to the barrier at most once.
AddJobs(t, hs, b) ==
    LET js == [i \in 1 .. Len(hs) |-> handle[hs[i]]]
    IN  /\ ThreadFree(t)
        /\ \A i \in 1 .. Len(hs) : handle[hs[i]] # 0
        /\ \A j \in Range(js) :
              /\ Occurrences(js, j) = 1
              /\ numAttached[j] = 0
              /\ j \notin addedJobs
              /\ ~BeingAdded(j)
        /\ tadd' = [tadd EXCEPT
                        ![t] = [barrier |-> b, jobs |-> js, next |-> 1]]
        /\ pc' = [pc EXCEPT ![t] = "add_jobs"]
        /\ UNCHANGED <<progVars, tjob, tbarrier, tqueue, tresult, tbatch,
                       histVars>>

\* Barrier::AddJobs, one turn of its loop, first step: SetBarrier(this) on
\* the job of the next handle.  If it fails the job needs no waiting and the
\* loop goes on with the next handle.
AddJobsSetBarrier(t) ==
    LET a == tadd[t]
        j == a.jobs[a.next]
    IN  /\ pc[t] = "add_jobs"
        /\ IF SetBarrier(j)
             THEN /\ mBarrier' = [mBarrier EXCEPT ![j] = a.barrier]
                  /\ numAttached' = [numAttached EXCEPT ![j] = @ + 1]
                  /\ pc' = [pc EXCEPT ![t] = "add_jobs_count"]
                  /\ UNCHANGED <<addedJobs, tadd, lastAddJobs>>
             ELSE /\ addedJobs' = addedJobs \cup {j}
                  /\ tadd' = [tadd EXCEPT
                                  ![t] = IF a.next = Len(a.jobs) THEN NoAdd
                                         ELSE [a EXCEPT !.next = @ + 1]]
                  /\ lastAddJobs' = IF a.next = Len(a.jobs) THEN a.jobs
                                     ELSE lastAddJobs
                  /\ pc' = [pc EXCEPT
                               ![t] = IF a.next = Len(a.jobs) THEN "idle"
                                      ELSE "add_jobs"]
                  /\ UNCHANGED <<mBarrier, numAttached>>
        /\ UNCHANGED <<numCreated, mNumDependencies, mReferenceCount,
                       mJobFunction, handle, queue, numOutstanding, waiter,
                       tjob, tbarrier, tqueue, tresult, tbatch, payloadRuns,
                       payloadReturned, payloadRemoved, owed, numQueued,
                       numFreed, numNotified, executeDone, pendingZero>>

\* Barrier::AddJobs, one turn of its loop, second step: SetBarrier succeeded,
\* the outstanding count goes up by one; the call returns after the last
\* handle.
AddJobsCount(t) ==
    LET a == tadd[t]
    IN  /\ pc[t] = "add_jobs_count"
        /\ numOutstanding' = numOutstanding + 1
        /\ addedJobs' = addedJobs \cup {a.jobs[a.next]}
        /\ tadd' = [tadd EXCEPT
                        ![t] = IF a.next = Len(a.jobs) THEN NoAdd
                               ELSE [a EXCEPT !.next = @ + 1]]
        /\ lastAddJobs' = IF a.next = Len(a.jobs) THEN a.jobs ELSE lastAddJobs
        /\ pc' = [pc EXCEPT
                     ![t] = IF a.next = Len(a.jobs) THEN "idle"
                            ELSE "add_jobs"]
        /\ UNCHANGED <<numCreated, mNumDependencies, mReferenceCount,
                       mBarrier, mJobFunction, handle, queue, waiter, tjob,
                       tbarrier, tqueue, tresult, tbatch, payloadRuns,
                       payloadReturned, payloadRemoved, owed, numQueued,
                       numFreed, numNotified, numAttached, executeDone,
                       pendingZero>>

\* WaitForJobs(barrier) is entered; only one thread waits at a time.
WaitForJobs(t) ==
    /\ ThreadFree(t)
    /\ waiter = 0
    /\ waiter' = t
    /\ UNCHANGED <<numCreated, mNumDependencies, mReferenceCount, mBarrier,
                   mJobFunction, handle, queue, numOutstanding, threadVars,
                   histVars>>

\* WaitForJobs returns: the waiting thread finds the outstanding count zero.
WaitReturn(t) ==
    /\ waiter = t
    /\ pc[t] = "idle"
    /\ numOutstanding = 0
    /\ waiter' = 0
    /\ UNCHANGED <<numCreated, mNumDependencies, mReferenceCount, mBarrier,
                   mJobFunction, handle, queue, numOutstanding, threadVars,
                   histVars>>

\* ------------------------------------------------------------ the system
Next ==
    \/ \E t \in Threads, n \in 0 .. MaxDeps, s \in 0 .. NumJobs :
          CreateJob(t, n, s)
    \/ \E t \in Threads, src \in Threads : HandleCopy(t, src)
    \/ \E t \in Threads, src \in Threads : HandleMove(t, src)
    \/ \E t \in Threads : HandleDestroy(t)
    \/ \E t \in Threads, n \in 1 .. MaxDeps : HandleAddDependency(t, n)
    \/ \E t \in Threads, n \in 1 .. MaxDeps : HandleRemoveDependency(t, n)
    \/ \E t \in Threads : RemoveDependencyAndQueue(t)
    \/ \E t \in Threads : Dequeue(t)
    \/ \E t \in Threads : ExecuteViaHandle(t)
    \/ \E t \in Threads : ExecuteClaim(t)
    \/ \E t \in Threads : Payload(t)
    \/ \E t \in Threads : PayloadQueue(t)
    \/ \E t \in Threads : PayloadReturn(t)
    \/ \E t \in Threads : ExecuteFetchBarrier(t)
    \/ \E t \in Threads : ExecuteFreezeBarrier(t)
    \/ \E t \in Threads : ExecuteMarkDone(t)
    \/ \E t \in Threads : ExecuteNotify(t)
    \/ \E t \in Threads : WorkerRelease(t)
    \/ \E t \in Threads, b \in Barriers : AddJob(t, b)
    \/ \E t \in Threads : AddJobCount(t)
    \/ \E t \in Threads, hs \in HandleArrays, b \in Barriers :
          AddJobs(t, hs, b)
    \/ \E t \in Threads : AddJobsSetBarrier(t)
    \/ \E t \in Threads : AddJobsCount(t)
    \/ \E t \in Threads : WaitForJobs(t)
    \/ \E t \in Threads : WaitReturn(t)

Spec == Init /\ [][Next]_vars

\* The system with callers that do not keep the contract of RemoveDependency:
\* jobs with self-contained payloads are created, their dependencies removed
\* by any count at any time, and the workers execute what is queued.
NextUnchecked ==
    \/ \E t \in Threads, n \in 0 .. MaxDeps : CreateJob(t, n, 0)
    \/ \E t \in Threads, n \in 1 .. MaxDeps + MaxUnderflow :
          HandleRemoveDependencyUnchecked(t, n)
    \/ \E t \in Threads : RemoveDependencyAndQueue(t)
    \/ \E t \in Threads : Dequeue(t)
    \/ \E t \in Threads : ExecuteClaim(t)
    \/ \E t \in Threads : Payload(t)
    \/ \E t \in Threads : ExecuteFetchBarrier(t)
    \/ \E t \in Threads : ExecuteFreezeBarrier(t)
    \/ \E t \in Threads : ExecuteMarkDone(t)
    \/ \E t \in Threads : WorkerRelease(t)

SpecUnchecked == Init /\ [][NextUnchecked]_vars

\* The system with sRemoveDependencies: jobs are created, their dependencies
\* are removed one handle at a time or by sRemoveDependencies over an array
\* of handles, and the workers execute what is queued.
NextBatch ==
    \/ \E t \in Threads, n \in 0 .. MaxDeps : CreateJob(t, n, 0)
    \/ \E t \in Threads, n \in 1 .. MaxDeps : HandleRemoveDependency(t, n)
    \/ \E t \in Threads : RemoveDependencyAndQueue(t)
    \/ \E t \in Threads, hs \in HandleArrays, n \in 1 .. MaxDeps :
          sRemoveDependencies(t, hs, n)
    \/ \E t \in Threads : sRemoveDependenciesLoop(t)
    \/ \E t \in Threads : sRemoveDependenciesQueue(t)
    \/ \E t \in Threads : Dequeue(t)
    \/ \E t \in Threads : ExecuteClaim(t)
    \/ \E t \in Threads : Payload(t)
    \/ \E t \in Threads : ExecuteFetchBarrier(t)
    \/ \E t \in Threads : ExecuteFreezeBarrier(t)
    \/ \E t \in Threads : ExecuteMarkDone(t)
    \/ \E t \in Threads : WorkerRelease(t)

SpecBatch == Init /\ [][NextBatch]_vars

\* The system of the barrier scenario: jobs without dependencies and with
\* self-contained payloads are created, which queues them, and added to the
\* barrier; the workers, and the thread inside WaitForJobs, execute what is
\* queued.
NextLive ==
    \/ \E t \in Threads : CreateJob(t, 0, 0)
    \/ \E t \in Threads, b \in Barriers : AddJob(t, b)
    \/ \E t \in Threads : AddJobCount(t)
    \/ \E t \in Threads, hs \in HandleArrays, b \in Barriers :
          AddJobs(t, hs, b)
    \/ \E t \in Threads : AddJobsSetBarrier(t)
    \/ \E t \in Threads : AddJobsCount(t)
    \/ \E t \in Threads : WaitForJobs(t)
    \/ \E t \in Threads : WaitReturn(t)
    \/ \E t \in Threads : Dequeue(t)
    \/ \E t \in Threads : ExecuteClaim(t)
    \/ \E t \in Threads : Payload(t)
    \/ \E t \in Threads : ExecuteFetchBarrier(t)
    \/ \E t \in Threads : ExecuteFreezeBarrier(t)
    \/ \E t \in Threads : ExecuteMarkDone(t)
    \/ \E t \in Threads : ExecuteNotify(t)
    \/ \E t \in Threads : WorkerRelease(t)

\* A thread that is inside a call goes on with it.
Continue(t) ==
    \/ AddJobCount(t)
    \/ AddJobsSetBarrier(t)
    \/ AddJobsCount(t)
    \/ ExecuteClaim(t)
    \/ Payload(t)
    \/ ExecuteFetchBarrier(t)
    \/ ExecuteFreezeBarrier(t)
    \/ ExecuteMarkDone(t)
    \/ ExecuteNotify(t)
    \/ WorkerRelease(t)

\* Every thread goes on with the call it is in, a payload returns, a queued
\* job is taken by some thread that has nothing else to do (a worker, or the
\* thread inside WaitForJobs), and WaitForJobs returns when it finds the
\* outstanding count zero.
SpecLive ==
    /\ Init
    /\ [][NextLive]_vars
    /\ \A t \in Threads : WF_vars(Continue(t))
    /\ WF_vars(\E t \in Threads : Dequeue(t))
    /\ WF_vars(\E t \in Threads : WaitReturn(t))

\* ============================================================ properties
\* The threads inside the body of Execute on job j: past the winning
\* compare-and-swap and before the return of cDoneState.
Executing(j) ==
    {t \in Threads :
        /\ tjob[t] = j
        /\ pc[t] \in {"payload", "p_queue", "p_return", "fetch", "freeze",
                      "markdone", "notify"}}

\* C1: whatever Execute calls are made on a job, by whatever threads and in
\* whatever interleaving, its payload is invoked at most once: at most one
\* call is ever inside the body of Execute, and only the call that moved the
\* counter from 0 to cExecutingState got there.
C1_PayloadAtMostOnce ==
    \A j \in Jobs :
        /\ payloadRuns[j] <= 1
        /\ Cardinality(Executing(j)) <= payloadRuns[j]
        /\ payloadRuns[j] = 1 <=> mNumDependencies[j] \in {cExecutingState, cDoneState}

\* Two Execute calls race on one job: one is inside the payload, the other
\* (a worker's) has returned without running it and is about to release the
\* queue's reference.
C1_Witness ==
    \E j \in Jobs, t1 \in Threads, t2 \in Threads :
        /\ t1 # t2
        /\ tjob[t1] = j /\ pc[t1] = "payload"
        /\ tjob[t2] = j /\ pc[t2] = "release"
        /\ payloadRuns[j] = 1

\* C2: a job's payload has started only if every dependency the job was
\* created with or was given by AddDependency has been removed: the removed
\* counts add up to the initial count plus the added ones (owed is their
\* difference).
C2_StartsOnlyWhenAllRemoved ==
    \A j \in Jobs : payloadRuns[j] > 0 => owed[j] = 0

\* A job that was created with a dependency, which the payload of another job
\* removed, has started.
C2_Witness ==
    \E j \in Jobs, p \in Jobs :
        /\ mJobFunction[p] = j
        /\ payloadRemoved[p]
        /\ payloadRuns[j] = 1
        /\ owed[j] = 0

\* The calls of RemoveDependencyAndQueue that found the new value of job j's
\* counter zero and have not yet called QueueJob.
AboutToQueue(j) ==
    {t \in Threads :
        \/ pc[t] = "rd_queue" /\ tjob[t] = j
        \/ pc[t] = "p_queue" /\ mJobFunction[tjob[t]] = j}

\* C3: when the counts that several threads remove from a job add up to its
\* counter, exactly one of the calls finds the new value zero and hands the
\* job to QueueJob: the job is queued once, never twice, and not at all only
\* while that one call is on its way to QueueJob.
C3_QueuedExactlyOnce ==
    \A j \in Jobs :
        Created(j) =>
            /\ numQueued[j] + Cardinality(AboutToQueue(j)) =
                  (IF owed[j] = 0 THEN 1 ELSE 0)
            /\ numQueued[j] <= 1

\* Two threads have removed dependencies from the same job: a payload that is
\* still running removed one and did not reach zero, and a RemoveDependency
\* through a handle removed the rest, found zero and queued the job.
C3_Witness ==
    \E j \in Jobs, t1 \in Threads, t2 \in Threads :
        /\ pc[t1] = "p_return" /\ mJobFunction[tjob[t1]] = j
        /\ numQueued[j] = 0
        /\ pc[t2] = "rd_queue" /\ tjob[t2] = j

\* C4 as claimed: the payload of a job whose dependency is removed by the
\* payload of job p starts only after p's payload has returned.
C4_SuccessorAfterPayloadReturned ==
    \A p \in Jobs :
        (mJobFunction[p] # 0 /\ payloadRuns[mJobFunction[p]] > 0)
            => payloadReturned[p]

\* C4 as amended: the payload of a job whose dependency is removed by the
\* payload of job p starts only after p's payload has made its
\* RemoveDependency call; the rest of p's payload, and its return, may come
\* later.
C4_SuccessorAfterRemoveDependency ==
    \A p \in Jobs :
        (mJobFunction[p] # 0 /\ payloadRuns[mJobFunction[p]] > 0)
            => payloadRemoved[p]

\* The successor's payload has started while the payload that released it
\* has removed the dependency and has not returned yet.
C4_Witness ==
    \E p \in Jobs :
        /\ mJobFunction[p] # 0
        /\ payloadRuns[mJobFunction[p]] = 1
        /\ payloadRemoved[p]
        /\ ~payloadReturned[p]

\* C5: WaitForJobs returns only when every job added to the barrier is done.
C5_WaitReturnsOnlyWhenAllDone ==
    [][(waiter # 0 /\ waiter' = 0) => \A j \in addedJobs : IsDone(j)]_vars

\* C5, the least it asks for: WaitForJobs returns only when the payload of
\* every job added to the barrier has returned.
C5_WaitReturnsOnlyAfterPayloads ==
    [][(waiter # 0 /\ waiter' = 0) =>
            \A j \in addedJobs : payloadReturned[j]]_vars

\* C6: SetBarrier returns true for a job exactly when the job's Execute calls
\* the barrier's OnJobFinished, and then it calls it once: no job is notified
\* that was not attached, none is notified twice, and once Execute has
\* returned every attached job has been notified.
C6_NotifiedIffAttached ==
    \A j \in Jobs :
        /\ numAttached[j] <= 1
        /\ numNotified[j] <= numAttached[j]
        /\ executeDone[j] => numNotified[j] = numAttached[j]

\* Both outcomes have happened: one job was attached and, executed, notified
\* the barrier once; for another SetBarrier returned false and the job,
\* executed, notified nobody.
C6_Witness ==
    \E j \in Jobs, k \in Jobs :
        /\ executeDone[j] /\ numAttached[j] = 1 /\ numNotified[j] = 1
        /\ executeDone[k] /\ k \in addedJobs /\ numAttached[k] = 0
        /\ numNotified[k] = 0

\* C7: whenever OnJobFinished is called for a job, the job's counter already
\* is cDoneState.
C7_NotifiedWhenDone ==
    [][\A j \in Jobs : numNotified'[j] > numNotified[j] => IsDone(j)]_vars

\* OnJobFinished has been called for a job, which is done.
C7_Witness ==
    \E j \in Jobs : numNotified[j] = 1 /\ IsDone(j)

\* The references to job j: the handles, the queue's, the one a worker holds
\* for the queue, and the handles that the payloads of jobs not yet reclaimed
\* captured.
Refs(j) ==
    Cardinality({t \in Threads : handle[t] = j})
    + Cardinality({i \in 1 .. Len(queue) : queue[i] = j})
    + Cardinality({t \in Threads : tqueue[t] /\ tjob[t] = j})
    + Cardinality({p \in 1 .. numCreated :
                      mJobFunction[p] = j /\ numFreed[p] = 0})

\* C8 as claimed: FreeJob is called for a job only when the job is done.
C8_FreedOnlyWhenDone ==
    \A j \in Jobs : numFreed[j] > 0 => IsDone(j)

\* C8 as amended: FreeJob is called for a job only when nothing refers to it
\* any more, so never for a job that is queued, can be executed or is
\* executing; the job is then either done or still waiting for dependencies.
C8_FreedOnlyWhenUnreferenced ==
    \A j \in Jobs :
        numFreed[j] > 0 =>
            /\ Refs(j) = 0
            /\ \A t \in Threads : tjob[t] # j
            /\ AboutToQueue(j) = {}
            /\ IsDone(j) \/ (IsCount(j) /\ ~CanBeExecuted(j))

\* A job was reclaimed while it was waiting for a dependency.
C8_Witness ==
    \E j \in Jobs : numFreed[j] = 1 /\ IsCount(j) /\ mNumDependencies[j] > 0

\* C9: however many handles to a job were made and in whatever order and by
\* whatever threads they are released, FreeJob is called for the job exactly
\* once, by the Release that leaves no reference: never twice, and not at all
\* only while a reference is left.
C9_FreedExactlyOnce ==
    \A j \in Jobs :
        Created(j) =>
            /\ numFreed[j] <= 1
            /\ numFreed[j] = 1 <=> Refs(j) = 0
            /\ numFreed[j] = 1 <=> mReferenceCount[j] = 0

\* A job to which there were at least two handles, the creator's and the copy
\* that another job's payload captured, has been reclaimed once after both
\* were released.
C9_Witness ==
    \E j \in Jobs, p \in Jobs :
        /\ mJobFunction[p] = j
        /\ numFreed[p] = 1
        /\ numFreed[j] = 1
        /\ mReferenceCount[j] = 0

\* C10: jobs are handed to the queue in the order in which RemoveDependency
\* brought their counters to zero: when such a job is queued, it is the one
\* whose counter became zero first among those not yet queued.
C10_QueuedInZeroOrder ==
    [][\A j \in Jobs :
          (/\ numQueued'[j] > numQueued[j]
           /\ \E i \in 1 .. Len(pendingZero) : pendingZero[i] = j)
              => Head(pendingZero) = j]_vars

\* C12: the barrier slot of a job only changes from 0 to a barrier, by a
\* SetBarrier that returns true, and from 0 or a barrier to
\* cBarrierDoneState, by the compare-and-swap of Execute's loop; once it is
\* cBarrierDoneState it stays so, and a SetBarrier made then returns false
\* (no attach is recorded) and leaves the slot alone.
C12_BarrierSlotTransitions ==
    [][\A j \in Jobs :
          /\ mBarrier'[j] # mBarrier[j] =>
                \/ /\ mBarrier[j] = 0
                   /\ mBarrier'[j] \in Barriers
                   /\ numAttached'[j] = numAttached[j] + 1
                \/ /\ mBarrier[j] \in {0} \cup Barriers
                   /\ mBarrier'[j] = cBarrierDoneState
                   /\ \E t \in Threads :
                         /\ tjob[t] = j
                         /\ pc[t] = "freeze"
                         /\ pc'[t] = "markdone"
          /\ mBarrier[j] = cBarrierDoneState =>
                /\ mBarrier'[j] = cBarrierDoneState
                /\ numAttached'[j] = numAttached[j]]_vars

\* All three changes have been made and a late SetBarrier has failed: one
\* job's slot went from 0 to the barrier and then to cBarrierDoneState,
\* another's went from 0 to cBarrierDoneState, and the AddJob made on it
\* afterwards found the slot frozen and left it so.
C12_Witness ==
    \E j \in Jobs, k \in Jobs :
        /\ numAttached[j] = 1 /\ mBarrier[j] = cBarrierDoneState
        /\ numAttached[k] = 0 /\ mBarrier[k] = cBarrierDoneState
        /\ k \in addedJobs

\* C13: a job whose counter is cDoneState has its barrier slot at
\* cBarrierDoneState, so a SetBarrier that starts once IsDone() is true
\* fails.
C13_DoneImpliesBarrierFrozen ==
    \A j \in Jobs :
        IsDone(j) => (mBarrier[j] = cBarrierDoneState /\ ~SetBarrier(j))

\* A job is done and a thread holds a handle to it through which it has not
\* yet called AddJob: the SetBarrier of that call is going to fail.
C13_Witness ==
    \E j \in Jobs, t \in Threads :
        /\ IsDone(j)
        /\ handle[t] = j
        /\ ThreadFree(t)
        /\ j \notin addedJobs
        /\ numAttached[j] = 0
        /\ mBarrier[j] = cBarrierDoneState

\* C14 as claimed: the counter of a job only changes from a count N > 0 to a
\* smaller count, from 0 to cExecutingState and from cExecutingState to
\* cDoneState.
C14_CounterTransitionsAsClaimed ==
    [][\A j \in Jobs :
          (Created(j) /\ mNumDependencies'[j] # mNumDependencies[j]) =>
              \/ /\ IsCount(j)
                 /\ mNumDependencies[j] > 0
                 /\ mNumDependencies'[j] >= 0
                 /\ mNumDependencies'[j] < mNumDependencies[j]
              \/ /\ mNumDependencies[j] = 0
                 /\ mNumDependencies'[j] = cExecutingState
              \/ /\ mNumDependencies[j] = cExecutingState
                 /\ mNumDependencies'[j] = cDoneState]_vars

\* C14 as amended: under calls that keep the contract, the counter of a job
\* changes from a count N > 0 to a smaller count (RemoveDependency) or to a
\* larger one (AddDependency), from 0 to cExecutingState and from
\* cExecutingState to cDoneState, and in no other way: once it is
\* cExecutingState or cDoneState it never holds a count again.
C14_CounterTransitions ==
    [][\A j \in Jobs :
          (Created(j) /\ mNumDependencies'[j] # mNumDependencies[j]) =>
              \/ /\ IsCount(j)
                 /\ mNumDependencies[j] > 0
                 /\ mNumDependencies'[j] >= 0
                 /\ mNumDependencies'[j] < mNumDependencies[j]
                 /\ owed'[j] < owed[j]
              \/ /\ IsCount(j)
                 /\ mNumDependencies[j] > 0
                 /\ mNumDependencies'[j] > mNumDependencies[j]
                 /\ owed'[j] > owed[j]
              \/ /\ mNumDependencies[j] = 0
                 /\ mNumDependencies'[j] = cExecutingState
              \/ /\ mNumDependencies[j] = cExecutingState
                 /\ mNumDependencies'[j] = cDoneState]_vars

\* A job created with a dependency has gone all the way: the payload of
\* another job removed the dependency, the job was executed and is done.
C14_Witness ==
    \E j \in Jobs, p \in Jobs :
        /\ mJobFunction[p] = j
        /\ payloadRemoved[p]
        /\ IsDone(j)
        /\ executeDone[j]

\* C15: an Execute call that finds the counter different from 0 returns the
\* value it found and changes nothing: not the counter, the barrier slot or
\* the reference count, and neither the payload nor OnJobFinished is
\* invoked; an Execute call that finds 0 goes on to the payload, and when it
\* returns, it returns cDoneState with the job done.
C15_FailedExecuteReturnsObserved ==
    [][\A t \in Threads :
          /\ (pc[t] = "exec" /\ pc'[t] # "exec") =>
                IF mNumDependencies[tjob[t]] # 0
                  THEN /\ tresult'[t] = mNumDependencies[tjob[t]]
                       /\ mNumDependencies' = mNumDependencies
                       /\ mBarrier' = mBarrier
                       /\ mReferenceCount' = mReferenceCount
                       /\ payloadRuns' = payloadRuns
                       /\ numNotified' = numNotified
                       /\ numOutstanding' = numOutstanding
                  ELSE /\ pc'[t] = "payload"
                       /\ tresult'[t] = 0
          /\ (pc[t] # "exec" /\ tresult[t] = 0 /\ tresult'[t] # 0) =>
                /\ tresult'[t] = cDoneState
                /\ mNumDependencies'[tjob[t]] = cDoneState
                /\ payloadReturned[tjob[t]]]_vars

\* An Execute call made through a handle on a job that still waited for
\* dependencies has returned the count it found; the job is untouched.
C15_Witness ==
    \E t \in Threads :
        /\ pc[t] = "idle"
        /\ handle[t] # 0
        /\ tresult[t] \in 1 .. MaxDeps
        /\ mNumDependencies[handle[t]] = tresult[t]
        /\ payloadRuns[handle[t]] = 0
        /\ mBarrier[handle[t]] = 0

\* The live handles that refer to job j: the threads' handles and the copies
\* captured by the payloads of jobs not yet reclaimed.
LiveHandles(j) ==
    Cardinality({t \in Threads : handle[t] = j})
    + Cardinality({p \in 1 .. numCreated :
                      mJobFunction[p] = j /\ numFreed[p] = 0})

\* The references to job j that the scheduler holds: one per entry of the
\* queue, and one per worker that took the job from the queue.
SchedulerRefs(j) ==
    Cardinality({i \in 1 .. Len(queue) : queue[i] = j})
    + Cardinality({t \in Threads : tqueue[t] /\ tjob[t] = j})

\* C18 as claimed: the reference count of a job is the number of live
\* handles that refer to it.
C18_RefCountEqualsLiveHandles ==
    \A j \in Jobs : Created(j) => mReferenceCount[j] = LiveHandles(j)

\* C18: whatever handle operations were made (the handle CreateJob
\* constructs from the raw job, copies, moves, reassignments, destructions),
\* the reference count of a job is the number of live handles that refer to
\* it plus the number of references the scheduler holds for it, one per entry
\* of the queue and one per worker that took it from the queue.
C18_RefCountIsHandlesAndSchedulerRefs ==
    \A j \in Jobs :
        Created(j) => mReferenceCount[j] = LiveHandles(j) + SchedulerRefs(j)

\* A job that is in the queue is referred to by the handles of all the
\* threads, the one CreateJob constructed from the raw job and the copies
\* made of it: its count is their number plus one for the queue.
C18_Witness ==
    \E j \in Jobs :
        /\ \A t \in Threads : handle[t] = j
        /\ LiveHandles(j) = NumThreads
        /\ SchedulerRefs(j) = 1
        /\ \E i \in 1 .. Len(queue) : queue[i] = j
        /\ mReferenceCount[j] = NumThreads + 1

\* The jobs added to the barrier for which SetBarrier returned true.
Counted == {j \in addedJobs : numAttached[j] = 1}

\* The jobs for which OnJobFinished was called.
Notified == {j \in Jobs : numNotified[j] = 1}

\* C19: an AddJob, or a turn of the loop of AddJobs, on a job whose barrier
\* slot already is cBarrierDoneState goes on normally, having changed neither
\* the outstanding count nor the slot nor attached the job, and with no
\* increment of the count to come for it; such a job never is part of the
\* outstanding
\* count, which is made up of the attached jobs alone, so it does not keep a
\* WaitForJobs from returning.
C19_AddJobAfterFinish ==
    /\ [](numOutstanding = Cardinality(Counted) - Cardinality(Notified))
    /\ [][\A j \in Jobs :
            (/\ mBarrier[j] = cBarrierDoneState
             /\ numAttached[j] = 0
             /\ \/ j \in addedJobs' \ addedJobs
                \/ numAttached'[j] # 0) =>
                  /\ j \in addedJobs'
                  /\ numAttached'[j] = 0
                  /\ numOutstanding' = numOutstanding
                  /\ mBarrier' = mBarrier
                  /\ \A t \in Threads :
                        pc'[t] \in {"add_count", "add_jobs_count"} =>
                            pc'[t] = pc[t]]_vars

\* A job was added to the barrier after it had finished, and the thread
\* inside WaitForJobs finds the outstanding count zero: it returns.
C19_Witness ==
    \E j \in addedJobs, t \in Threads :
        /\ IsDone(j)
        /\ numAttached[j] = 0
        /\ mBarrier[j] = cBarrierDoneState
        /\ waiter = t
        /\ pc[t] = "idle"
        /\ numOutstanding = 0

\* C20: the barrier's outstanding count is never negative: the decrement that
\* OnJobFinished makes for a job never comes before the increment that AddJob
\* makes for that job.
C20_OutstandingNeverNegative ==
    /\ numOutstanding >= 0
    /\ \A j \in Jobs : numNotified[j] = 1 => j \in addedJobs

\* C16: a RemoveDependency by more than the counter holds, or on a job that
\* is executing or done, corrupts nothing: a job whose Execute has returned
\* cDoneState stays done, a job that has started cannot be executed again,
\* and no payload runs twice.
C16_UnderflowCorruptsNothing ==
    \A j \in Jobs :
        /\ executeDone[j] => IsDone(j)
        /\ payloadRuns[j] >= 1 => ~CanBeExecuted(j)
        /\ payloadRuns[j] <= 1

\* The sRemoveDependencies calls that have collected job j and have not yet
\* called QueueJobs.
BatchReady(j) ==
    {t \in Threads :
        pc[t] \in {"batch", "batch_queue"} /\ j \in Range(tbatch[t].ready)}

\* The jobs of the array of thread t's sRemoveDependencies call whose counter
\* reached zero and that nobody has queued or is about to queue but this
\* call, in the order of the array.
ZeroedBy(t) ==
    SelectSeq(tbatch[t].jobs,
              LAMBDA j : /\ owed[j] = 0
                         /\ numQueued[j] = 0
                         /\ AboutToQueue(j) = {}
                         /\ BatchReady(j) \subseteq {t})

\* C17: sRemoveDependencies subtracts the count from the counter of the job
\* of every handle of the array, one after the other, and then hands the
\* jobs whose counter thereby reached zero, and only those, to QueueJobs in
\* one call and in the order of the array; as with RemoveDependency on one
\* handle at a time, a job is queued exactly when all its dependencies are
\* removed, and once.
C17_BatchQueuesZeroedInOrder ==
    /\ [](\A j \in Jobs :
            Created(j) =>
                /\ numQueued[j] + Cardinality(AboutToQueue(j))
                        + Cardinality(BatchReady(j)) =
                      (IF owed[j] = 0 THEN 1 ELSE 0)
                /\ numQueued[j] <= 1)
    /\ [][\A t \in Threads :
            /\ (pc[t] = "batch" /\ tbatch'[t] # tbatch[t]) =>
                  LET b == tbatch[t]
                      j == b.jobs[b.next]
                  IN  /\ mNumDependencies' =
                            [mNumDependencies EXCEPT ![j] = @ - b.count]
                      /\ tbatch'[t].next = b.next + 1
                      /\ tbatch'[t].jobs = b.jobs
                      /\ pc'[t] = "batch_queue" <=> b.next = Len(b.jobs)
                      /\ queue' = queue
            /\ (pc[t] = "batch_queue" /\ pc'[t] # "batch_queue") =>
                  /\ tbatch[t].next = Len(tbatch[t].jobs) + 1
                  /\ queue' = queue \o ZeroedBy(t)
                  /\ \A j \in Jobs :
                        numQueued'[j] =
                            numQueued[j] + Occurrences(ZeroedBy(t), j)]_vars

\* An sRemoveDependencies call over the array of the handles to job 2 and to
\* job 1, in this order, has brought both counters to zero and has queued
\* the two jobs with one QueueJobs call: job 2 is ahead of job 1.
C17_Witness ==
    \E t \in Threads :
        /\ pc[t] = "idle"
        /\ tbatch[t].jobs = <<2, 1>>
        /\ tbatch[t].ready = <<2, 1>>
        /\ queue = <<2, 1>>
        /\ numQueued = [j \in Jobs |-> 1]

\* C11: with jobs that have no dependencies, a scheduler that takes every
\* queued job and threads that go on with what they do, every job created
\* gets done, whether it was added to the barrier or not, and every
\* WaitForJobs returns.
C11_JobsGetDoneAndWaitReturns ==
    /\ \A j \in Jobs : Created(j) ~> IsDone(j)
    /\ \A j \in Jobs : (j \in addedJobs) ~> (IsDone(j) /\ executeDone[j])
    /\ (waiter # 0) ~> (waiter = 0)

\* All the jobs were created, added to the barrier by one AddJobs call,
\* attached and counted, executed once and are done; the thread inside
\* WaitForJobs finds the outstanding count zero and returns.
C11_Witness ==
    \E t \in Threads :
        /\ Range(lastAddJobs) = Jobs
        /\ waiter = t
        /\ pc[t] = "idle"
        /\ numOutstanding = 0
        /\ \A j \in Jobs :
              /\ j \in addedJobs
              /\ numAttached[j] = 1
              /\ numNotified[j] = 1
              /\ IsDone(j)
              /\ payloadRuns[j] = 1

====
